---- MODULE Spec2Model ----
(***************************************************************************)
(* The search pipeline controller of StudentSearch (its three variants)    *)
(* as a state machine: the React state of the component, the requests it   *)
(* has issued through fetch, and the events that drive it (typing, form    *)
(* submit, the Turnstile callbacks, the settling of a request), together   *)
(* with the Turnstile adapter of the gated variants: the loader script in  *)
(* the document, window.turnstile, the widgetId ref and the widgets that   *)
(* window.turnstile.render has created and window.turnstile.remove has not *)
(* removed.                                                                *)
(*                                                                         *)
(* Text is modelled as a sequence: a query is a sequence of one-character  *)
(* strings (trim and encodeURIComponent work per character), a message is  *)
(* a sequence of pieces (the empty string '' is << >>).                    *)
(***************************************************************************)
EXTENDS Integers, Sequences, FiniteSets

\* Bounds of the model.
MaxRequests == 2        \* requests issued in one behaviour
MaxMounts == 2          \* component instances mounted one after another

VARIABLES
    variant,        \* which StudentSearch component is mounted
    query,          \* useState('')      text of the input
    results,        \* useState([])      Student records shown
    loading,        \* useState(false)
    error,          \* useState('')
    hasSearched,    \* useState(false)
    token,          \* useState(null)    Turnstile token (gated variants)
    issued,         \* number of calls of fetch so far
    inflight,       \* the requests sent and not yet settled
    ev,             \* the last event handled and the path it took
    mounted,        \* the component is on the page
    inst,           \* the component instance mounted last
    scripts,        \* number of Turnstile loader script elements in the document
    turnstile,      \* window.turnstile is defined
    onload,         \* instance whose renderWidget is script.onload, 0 once it
                    \* has fired or can no longer fire
    widgetId,       \* widgetId.current of each instance's adapter
    widgets,        \* per instance: widgets rendered and not removed
    widgetOps,      \* what the last step did to window.turnstile
    reauth          \* history: st is "pending" from a 401/403 response to the
                    \* next onSuccess and "done" after it, at is the number
                    \* of requests issued before that onSuccess

hostVars == <<query, results, loading, error, hasSearched, token>>

adapterVars == <<scripts, turnstile, onload, widgetId, widgets, widgetOps>>

vars == <<variant, query, results, loading, error, hasSearched, token, issued, inflight, ev,
          mounted, inst, scripts, turnstile, onload, widgetId, widgets, widgetOps, reauth>>

----------------------------------------------------------------------------
\* The three components of the repository.
\*   "memo"   : token gate, memoized Turnstile callbacks
\*   "inline" : token gate, inline Turnstile callbacks
\*   "lite"   : no gate
Variants == {"memo", "inline", "lite"}

Gated(v) == v \in {"memo", "inline"}

Null == "null"
NoHeader == "no-header"
Tokens == {"tokA", "tokB"}

----------------------------------------------------------------------------
\* Text helpers.

WhiteSpace == {" ", "\t"}

RECURSIVE TrimStart(_)
TrimStart(s) ==
    IF s # << >> /\ Head(s) \in WhiteSpace THEN TrimStart(Tail(s)) ELSE s

RECURSIVE TrimEnd(_)
TrimEnd(s) ==
    IF s # << >> /\ s[Len(s)] \in WhiteSpace
    THEN TrimEnd(SubSeq(s, 1, Len(s) - 1))
    ELSE s

\* String.prototype.trim
trim(s) == TrimEnd(TrimStart(s))

\* The characters encodeURIComponent leaves alone (those the model uses).
Unreserved == {"a", "b", "1"}

\* The percent-escape of the other characters the model uses.
Escape(c) ==
    CASE c = " "  -> <<"%", "2", "0">>
      [] c = "\t" -> <<"%", "0", "9">>
      [] c = "&"  -> <<"%", "2", "6">>
      [] c = "%"  -> <<"%", "2", "5">>

RECURSIVE encodeURIComponent(_)
encodeURIComponent(s) ==
    IF s = << >> THEN << >>
    ELSE (IF Head(s) \in Unreserved THEN <<Head(s)>> ELSE Escape(Head(s)))
         \o encodeURIComponent(Tail(s))

Digit(d) == <<"0", "1", "2", "3", "4", "5", "6", "7", "8", "9">>[d + 1]

\* Number to decimal text, as a template literal does it.
RECURSIVE Decimal(_)
Decimal(n) ==
    IF n < 10 THEN <<Digit(n)>> ELSE Decimal(n \div 10) \o <<Digit(n % 10)>>

\* The texts the user types.
Queries == { << >>, <<" ", "\t">>, <<" ", "a", "&">> }

----------------------------------------------------------------------------
\* The remote service's answers.

Statuses == {
    [code |-> 200, text |-> "OK"],
    [code |-> 401, text |-> "Unauthorized"],
    [code |-> 403, text |-> "Forbidden"],
    [code |-> 404, text |-> "Not Found"] }

\* Response.ok
Ok(st) == st.code >= 200 /\ st.code <= 299

\* An employee element is the sequence of its child elements.
EmpRavi == <<
    [tag |-> "firstName", text |-> "ravi"],
    [tag |-> "rollno",    text |-> "210123"],
    [tag |-> "Home_town", text |-> "delhi"] >>

EmpPartial == <<
    [tag |-> "rollno",    text |-> ""],
    [tag |-> "dept",      text |-> "cse"],
    [tag |-> "Home_town", text |-> "pune"],
    [tag |-> "Home_town", text |-> "goa"] >>

\* The employee elements of the documents the service answers with.
Documents == { << >>, <<EmpRavi>>, <<EmpPartial, EmpRavi>> }

\* A response body: the employee elements its text holds, and whether the
\* text is well-formed XML.
Bodies == [ employees : Documents, malformed : BOOLEAN ]

\* What fetch or res.text() can throw: an Error with a message, or a value
\* that is no Error.
Thrown == {
    [isError |-> TRUE,  message |-> <<"Failed to fetch">>],
    [isError |-> FALSE, message |-> << >>] }

NoThrow == [isError |-> FALSE, message |-> <<"-">>]

NoBody == [employees |-> << >>, malformed |-> FALSE]

----------------------------------------------------------------------------
\* The messages of the component.

\* setError(...) of a submit without a token
VerifyMessage(v) ==
    IF v = "memo"
    THEN <<"Please verify you are human first.">>
    ELSE <<"Verifying security... please wait a moment.">>

\* new Error(...) thrown on status 401 or 403
AuthMessage(v) ==
    IF v = "memo"
    THEN <<"Security check failed. Please try again.">>
    ELSE <<"Security check failed or token expired. Please retry.">>

\* Mutant of StatusMessage: the message without the status, in every variant.
StatusMessage_NoCode(v, st) == <<"Failed to connect to search service">>

\* new Error(...) thrown on !res.ok
StatusMessage(v, st) ==
    IF v = "inline"
    THEN <<"Failed to connect to search service">>
    ELSE <<"Connection failed: ">> \o Decimal(st.code) \o <<" ", st.text>>

GenericMessage == <<"Something went wrong.">>

\* The catch block: err instanceof Error ? err.message : generic
CatchMessage(err) == IF err.isError THEN err.message ELSE GenericMessage

----------------------------------------------------------------------------
\* Parsing.

Undefined == "undefined"

\* emp.querySelector(tag)?.textContent : the text of the first element of
\* that tag inside emp, or undefined when there is none.
QueryText(emp, tag) ==
    LET at == { i \in 1..Len(emp) : emp[i].tag = tag }
    IN  IF at = {} THEN Undefined
        ELSE emp[CHOOSE i \in at : \A j \in at : i <= j].text

\* Mutant of OrElse: x ?? dflt, which keeps the empty string.
OrElse_Nullish(x, dflt) == IF x = Undefined THEN dflt ELSE x

\* x || dflt
OrElse(x, dflt) == IF x = Undefined \/ x = "" THEN dflt ELSE x

\* The record made of one employee element.
Student(emp) ==
    [ name     |-> OrElse(QueryText(emp, "firstName"), "Unknown"),
      roll     |-> OrElse(QueryText(emp, "rollno"), "N/A"),
      hometown |-> OrElse(QueryText(emp, "Home_town"), "N/A") ]

\* Array.from(employees).map(...)
ParsedData(employees) == [ i \in 1..Len(employees) |-> Student(employees[i]) ]

\* xmlDoc.getElementsByTagName("employee") after parseFromString(str,
\* "text/xml").  parseFromString never throws: for text that is not
\* well-formed it returns a document holding a parsererror element, and which
\* of the employee elements read before the error stay in that document
\* depends on the browser (none up to all of them).
EmployeeLists(body) ==
    IF body.malformed
    THEN { SubSeq(body.employees, 1, k) : k \in 0..Len(body.employees) }
    ELSE { body.employees }

----------------------------------------------------------------------------
\* The component.

\* Mutant of IsBlank: if (!query) return, the trim forgotten.
IsBlank_NoTrim(q) == q = << >>

\* !query.trim()
IsBlank(q) == trim(q) = << >>

\* Mutant of GateSatisfied: the token test left out.
GateSatisfied_NoCheck(v, tok) == TRUE

\* The gate of handleSearch: the gated variants return on !token.
GateSatisfied(v, tok) == ~Gated(v) \/ (tok # Null /\ tok # "")

\* Mutant of IsAuthFailure: the test of status 403 forgotten.
IsAuthFailure_Only401(v, st) == Gated(v) /\ st.code = 401

\* res.status === 401 || res.status === 403, tested by the gated variants only.
IsAuthFailure(v, st) == Gated(v) /\ (st.code = 401 \/ st.code = 403)

\* Mutant of Request: the query put in the URL as typed.
Request_Raw(n, v, q, tok) ==
    [ n |-> n, id |-> q, hdr |-> IF Gated(v) THEN tok ELSE NoHeader ]

\* The request fetch(...) sends: ?id=<encoded query>, and in the gated
\* variants the header x-turnstile-token.
Request(n, v, q, tok) ==
    [ n   |-> n,
      id  |-> encodeURIComponent(q),
      hdr |-> IF Gated(v) THEN tok ELSE NoHeader ]

Event(kind, path) ==
    [ kind |-> kind, path |-> path, req |-> 0, code |-> 0, read |-> FALSE,
      malformed |-> FALSE, employees |-> << >>, thrown |-> NoThrow ]

----------------------------------------------------------------------------
\* The Turnstile adapter (function Turnstile).  Its effect, the cleanup of the
\* effect and renderWidget are functions of the adapter state
\*   a = [scripts, turnstile, onload, widgetId, widgets, ops].

Instances == 1..MaxMounts

NoOps == [rendered |-> FALSE, removed |-> FALSE]

\* A page on which no adapter has run yet.
FreshPage ==
    [ scripts |-> 0, turnstile |-> FALSE, onload |-> 0,
      widgetId |-> [i \in Instances |-> Null],
      widgets |-> [i \in Instances |-> 0], ops |-> NoOps ]

\* What window.turnstile.render returns.
WidgetIdOf(i) == "widget"

\* Mutant of renderWidget: containerRef.current is not tested.
renderWidget_NoContainerCheck(a, i, container) ==
    IF a.turnstile /\ a.widgetId[i] = Null
    THEN [a EXCEPT !.widgetId[i] = WidgetIdOf(i),
                   !.widgets[i] = @ + 1,
                   !.ops.rendered = TRUE]
    ELSE a

\* renderWidget of instance i.  container: containerRef.current is set (React
\* sets the ref on mount and clears it on unmount).
renderWidget(a, i, container) ==
    IF a.turnstile /\ container /\ a.widgetId[i] = Null
    THEN [a EXCEPT !.widgetId[i] = WidgetIdOf(i),
                   !.widgets[i] = @ + 1,
                   !.ops.rendered = TRUE]
    ELSE a

\* Mutant of EffectRun: the script is inserted without looking for one.
EffectRun_AlwaysInsert(a, i) ==
    IF a.turnstile
    THEN renderWidget(a, i, TRUE)
    ELSE [a EXCEPT !.scripts = @ + 1, !.onload = i]

\* The body of the effect of instance i: insert the loader script when
\* querySelector finds none, render at once when window.turnstile is there.
EffectRun(a, i) ==
    IF a.scripts = 0
    THEN [a EXCEPT !.scripts = 1, !.onload = i]
    ELSE IF a.turnstile
    THEN renderWidget(a, i, TRUE)
    ELSE a

\* Mutant of EffectCleanup: the ref is cleared and the widget is not removed.
EffectCleanup_ForgetOnly(a, i) ==
    IF a.turnstile /\ a.widgetId[i] # Null
    THEN [a EXCEPT !.widgetId[i] = Null]
    ELSE a

\* The function the effect returns.
EffectCleanup(a, i) ==
    IF a.turnstile /\ a.widgetId[i] # Null
    THEN [a EXCEPT !.widgets[i] = @ - 1,
                   !.widgetId[i] = Null,
                   !.ops.removed = TRUE]
    ELSE a

\* The callbacks the host passes keep their identity from one render to the
\* next: useCallback(..., []) in "memo", arrow functions written in the JSX in
\* "inline".
CallbacksStable(v) == v = "memo"

\* The page once the component has mounted and its effects have run.
Init ==
    /\ variant \in Variants
    /\ query = << >>
    /\ results = << >>
    /\ loading = FALSE
    /\ error = << >>
    /\ hasSearched = FALSE
    /\ token = Null
    /\ issued = 0
    /\ inflight = {}
    /\ ev = Event("mount", "-")
    /\ mounted = TRUE
    /\ inst = 1
    /\ LET a == IF Gated(variant) THEN EffectRun(FreshPage, 1) ELSE FreshPage
       IN  /\ scripts = a.scripts
           /\ turnstile = a.turnstile
           /\ onload = a.onload
           /\ widgetId = a.widgetId
           /\ widgets = a.widgets
           /\ widgetOps = a.ops
    /\ reauth = [st |-> "none", at |-> 0]

\* onChange={(e) => setQuery(e.target.value)}
setQuery(q) ==
    /\ q # query
    /\ query' = q
    /\ ev' = Event("setQuery", "-")
    /\ UNCHANGED <<variant, results, loading, error, hasSearched, token, issued, inflight>>

\* Mutant of handleSearch: an accepted submit aborts the requests in flight.
handleSearch_AbortsPrevious ==
    IF IsBlank(query)
    THEN /\ ev' = Event("submit", "blank")
         /\ UNCHANGED <<variant, query, results, loading, error, hasSearched,
                        token, issued, inflight>>
    ELSE IF ~GateSatisfied(variant, token)
    THEN /\ error' = VerifyMessage(variant)
         /\ ev' = Event("submit", "ungated")
         /\ UNCHANGED <<variant, query, results, loading, hasSearched, token,
                        issued, inflight>>
    ELSE /\ issued < MaxRequests
         /\ loading' = TRUE
         /\ error' = << >>
         /\ results' = << >>
         /\ hasSearched' = TRUE
         /\ issued' = issued + 1
         /\ inflight' = {Request(issued + 1, variant, query, token)}
         /\ ev' = Event("submit", "accepted")
         /\ UNCHANGED <<variant, query, token>>

\* Mutant of handleSearch: setResults([]) left out of the accepted submit.
handleSearch_KeepResults ==
    IF IsBlank(query)
    THEN /\ ev' = Event("submit", "blank")
         /\ UNCHANGED <<variant, query, results, loading, error, hasSearched,
                        token, issued, inflight>>
    ELSE IF ~GateSatisfied(variant, token)
    THEN /\ error' = VerifyMessage(variant)
         /\ ev' = Event("submit", "ungated")
         /\ UNCHANGED <<variant, query, results, loading, hasSearched, token,
                        issued, inflight>>
    ELSE /\ issued < MaxRequests
         /\ loading' = TRUE
         /\ error' = << >>
         /\ hasSearched' = TRUE
         /\ issued' = issued + 1
         /\ inflight' = inflight \cup {Request(issued + 1, variant, query, token)}
         /\ ev' = Event("submit", "accepted")
         /\ UNCHANGED <<variant, query, token, results>>

\* handleSearch up to its first await: the two early returns, or the four
\* setters and the call of fetch.
handleSearch ==
    IF IsBlank(query)
    THEN /\ ev' = Event("submit", "blank")
         /\ UNCHANGED <<variant, query, results, loading, error, hasSearched,
                        token, issued, inflight>>
    ELSE IF ~GateSatisfied(variant, token)
    THEN /\ error' = VerifyMessage(variant)
         /\ ev' = Event("submit", "ungated")
         /\ UNCHANGED <<variant, query, results, loading, hasSearched, token,
                        issued, inflight>>
    ELSE /\ issued < MaxRequests
         /\ loading' = TRUE
         /\ error' = << >>
         /\ results' = << >>
         /\ hasSearched' = TRUE
         /\ issued' = issued + 1
         /\ inflight' = inflight \cup {Request(issued + 1, variant, query, token)}
         /\ ev' = Event("submit", "accepted")
         /\ UNCHANGED <<variant, query, token>>

\* Mutant of handleTurnstileSuccess: the error is kept.
handleTurnstileSuccess_KeepError(t) ==
    /\ Gated(variant)
    /\ token' = t
    /\ ev' = Event("onSuccess", "-")
    /\ UNCHANGED <<variant, query, results, loading, hasSearched, issued, inflight,
                 error>>

\* The Turnstile callback: setToken(t); setError('')
handleTurnstileSuccess(t) ==
    /\ Gated(variant)
    /\ token' = t
    /\ error' = << >>
    /\ ev' = Event("onSuccess", "-")
    /\ UNCHANGED <<variant, query, results, loading, hasSearched, issued, inflight>>

\* Mutant of handleTurnstileExpire: the expired token is kept.
handleTurnstileExpire_KeepToken ==
    /\ Gated(variant)
    /\ ev' = Event("onExpire", "-")
    /\ UNCHANGED <<variant, query, results, loading, error, hasSearched, issued,
                 inflight, token>>

\* The Turnstile expired-callback: setToken(null)
handleTurnstileExpire ==
    /\ Gated(variant)
    /\ token' = Null
    /\ ev' = Event("onExpire", "-")
    /\ UNCHANGED <<variant, query, results, loading, error, hasSearched, issued,
                 inflight>>

\* Mutant of FetchResolved: a 401 or 403 response that keeps the token.
FetchResolved_KeepToken(r, st, body, employees, read) ==
    /\ r \in inflight
    /\ inflight' = inflight \ {r}
    /\ loading' = FALSE
    /\ IF IsAuthFailure(variant, st)
       THEN /\ token' = token
            /\ error' = AuthMessage(variant)
            /\ ev' = [Event("settled", "auth") EXCEPT !.req = r.n, !.code = st.code]
            /\ UNCHANGED results
       ELSE IF ~Ok(st)
       THEN /\ error' = StatusMessage(variant, st)
            /\ ev' = [Event("settled", "status") EXCEPT !.req = r.n, !.code = st.code]
            /\ UNCHANGED <<results, token>>
       ELSE IF read \in Thrown
       THEN /\ error' = CatchMessage(read)
            /\ ev' = [Event("settled", "textThrew") EXCEPT
                        !.req = r.n, !.code = st.code, !.read = TRUE,
                        !.thrown = read]
            /\ UNCHANGED <<results, token>>
       ELSE /\ results' = ParsedData(employees)
            /\ ev' = [Event("settled", "parsed") EXCEPT
                        !.req = r.n, !.code = st.code, !.read = TRUE,
                        !.malformed = body.malformed, !.employees = employees]
            /\ UNCHANGED <<error, token>>
    /\ UNCHANGED <<variant, query, hasSearched, issued>>

\* Mutant of FetchResolved: an empty list of employees reported as an error.
FetchResolved_EmptyIsError(r, st, body, employees, read) ==
    /\ r \in inflight
    /\ inflight' = inflight \ {r}
    /\ loading' = FALSE
    /\ IF IsAuthFailure(variant, st)
       THEN /\ token' = Null
            /\ error' = AuthMessage(variant)
            /\ ev' = [Event("settled", "auth") EXCEPT !.req = r.n, !.code = st.code]
            /\ UNCHANGED results
       ELSE IF ~Ok(st)
       THEN /\ error' = StatusMessage(variant, st)
            /\ ev' = [Event("settled", "status") EXCEPT !.req = r.n, !.code = st.code]
            /\ UNCHANGED <<results, token>>
       ELSE IF read \in Thrown
       THEN /\ error' = CatchMessage(read)
            /\ ev' = [Event("settled", "textThrew") EXCEPT
                        !.req = r.n, !.code = st.code, !.read = TRUE,
                        !.thrown = read]
            /\ UNCHANGED <<results, token>>
       ELSE /\ results' = ParsedData(employees)
            /\ error' = IF employees = << >> THEN <<"No results found.">> ELSE error
            /\ ev' = [Event("settled", "parsed") EXCEPT
                        !.req = r.n, !.code = st.code, !.read = TRUE,
                        !.malformed = body.malformed, !.employees = employees]
            /\ UNCHANGED token
    /\ UNCHANGED <<variant, query, hasSearched, issued>>

\* The rest of handleSearch once fetch has resolved with a response of
\* status st: the status tests, then res.text(), the parse and setResults,
\* the catch block and the finally block.  read is what res.text() does: it
\* yields the body, or it throws.
FetchResolved(r, st, body, employees, read) ==
    /\ r \in inflight
    /\ inflight' = inflight \ {r}
    /\ loading' = FALSE
    /\ IF IsAuthFailure(variant, st)
       THEN /\ token' = Null
            /\ error' = AuthMessage(variant)
            /\ ev' = [Event("settled", "auth") EXCEPT !.req = r.n, !.code = st.code]
            /\ UNCHANGED results
       ELSE IF ~Ok(st)
       THEN /\ error' = StatusMessage(variant, st)
            /\ ev' = [Event("settled", "status") EXCEPT !.req = r.n, !.code = st.code]
            /\ UNCHANGED <<results, token>>
       ELSE IF read \in Thrown
       THEN /\ error' = CatchMessage(read)
            /\ ev' = [Event("settled", "textThrew") EXCEPT
                        !.req = r.n, !.code = st.code, !.read = TRUE,
                        !.thrown = read]
            /\ UNCHANGED <<results, token>>
       ELSE /\ results' = ParsedData(employees)
            /\ ev' = [Event("settled", "parsed") EXCEPT
                        !.req = r.n, !.code = st.code, !.read = TRUE,
                        !.malformed = body.malformed, !.employees = employees]
            /\ UNCHANGED <<error, token>>
    /\ UNCHANGED <<variant, query, hasSearched, issued>>

\* Mutant of FetchRejected: setLoading(false) at the end of the try block
\* instead of in a finally block.
FetchRejected_NoFinally(r, err) ==
    /\ r \in inflight
    /\ inflight' = inflight \ {r}
    /\ error' = CatchMessage(err)
    /\ ev' = [Event("settled", "fetchThrew") EXCEPT !.req = r.n, !.thrown = err]
    /\ UNCHANGED <<variant, query, results, hasSearched, token, issued, loading>>

\* The rest of handleSearch once fetch has rejected with err: the catch block
\* and the finally block.
FetchRejected(r, err) ==
    /\ r \in inflight
    /\ inflight' = inflight \ {r}
    /\ loading' = FALSE
    /\ error' = CatchMessage(err)
    /\ ev' = [Event("settled", "fetchThrew") EXCEPT !.req = r.n, !.thrown = err]
    /\ UNCHANGED <<variant, query, results, hasSearched, token, issued>>

Typing == \E q \in Queries : setQuery(q)

Submit == handleSearch

\* Mutant of WidgetLive: callbacks arrive though no widget was rendered.
WidgetLive_NoWidget == Gated(variant) /\ mounted

\* The widget of the mounted instance calls back only while it exists.
WidgetLive == Gated(variant) /\ mounted /\ widgets[inst] > 0

WidgetSuccess == WidgetLive /\ \E t \in Tokens : handleTurnstileSuccess(t)

WidgetExpire == WidgetLive /\ handleTurnstileExpire

\* A response arrives.  The body of a response whose status is not a success
\* status is never read, so it is not enumerated.
Resolve ==
    \E r \in inflight, st \in Statuses :
        IF IsAuthFailure(variant, st) \/ ~Ok(st)
        THEN FetchResolved(r, st, NoBody, << >>, NoThrow)
        ELSE \/ \E read \in Thrown : FetchResolved(r, st, NoBody, << >>, read)
             \/ \E body \in Bodies : \E employees \in EmployeeLists(body) :
                    FetchResolved(r, st, body, employees, NoThrow)

Reject == \E r \in inflight, err \in Thrown : FetchRejected(r, err)

\* The adapter state before a step; ops collects what the step does.
Adapter ==
    [ scripts |-> scripts, turnstile |-> turnstile, onload |-> onload,
      widgetId |-> widgetId, widgets |-> widgets, ops |-> NoOps ]

SetAdapter(a) ==
    /\ scripts' = a.scripts
    /\ turnstile' = a.turnstile
    /\ onload' = a.onload
    /\ widgetId' = a.widgetId
    /\ widgets' = a.widgets
    /\ widgetOps' = a.ops

\* The host renders again when a state setter changed a value; setResults is
\* always given a new array.
RenderTriggered ==
    \/ hostVars' # hostVars
    \/ ev'.kind = "submit" /\ ev'.path = "accepted"
    \/ ev'.kind = "settled" /\ ev'.path = "parsed"

\* The effect of the adapter depends on [siteKey, onSuccess, onExpire, theme]:
\* it is cleaned up and run again after a render that passed new callbacks.
EffectDepsChanged ==
    Gated(variant) /\ RenderTriggered /\ ~CallbacksStable(variant)

\* An event handled by the mounted component, followed by the render and the
\* effects it causes.
Host(A) ==
    /\ mounted
    /\ A
    /\ SetAdapter(IF EffectDepsChanged
                  THEN EffectRun(EffectCleanup(Adapter, inst), inst)
                  ELSE Adapter)
    /\ reauth' = IF ev'.kind = "settled" /\ ev'.path = "auth"
                 THEN [st |-> "pending", at |-> 0]
                 ELSE IF ev'.kind = "onSuccess" /\ reauth.st = "pending"
                 THEN [st |-> "done", at |-> issued]
                 ELSE reauth
    /\ UNCHANGED <<mounted, inst>>

\* The loader script has loaded: window.turnstile is defined and script.onload
\* runs the renderWidget of the effect run that inserted the script.
ScriptLoaded ==
    /\ onload # 0
    /\ SetAdapter(renderWidget([Adapter EXCEPT !.turnstile = TRUE, !.onload = 0],
                               onload, mounted /\ inst = onload))
    /\ ev' = Event("scriptLoaded", "-")
    /\ UNCHANGED <<variant, hostVars, issued, inflight, mounted, inst, reauth>>

\* The loader script fails to load and onload never runs, or it loads without
\* defining window.turnstile and renderWidget does nothing.
ScriptFailed ==
    /\ onload # 0
    /\ SetAdapter([Adapter EXCEPT !.onload = 0])
    /\ ev' = Event("scriptFailed", "-")
    /\ UNCHANGED <<variant, hostVars, issued, inflight, mounted, inst, reauth>>

\* The component leaves the page: React clears containerRef, runs the cleanup
\* of the effect and discards the state of the component.
Unmount ==
    /\ mounted
    /\ mounted' = FALSE
    /\ SetAdapter(IF Gated(variant) THEN EffectCleanup(Adapter, inst) ELSE Adapter)
    /\ query' = << >>
    /\ results' = << >>
    /\ loading' = FALSE
    /\ error' = << >>
    /\ hasSearched' = FALSE
    /\ token' = Null
    /\ ev' = Event("unmount", "-")
    /\ UNCHANGED <<variant, issued, inflight, inst, reauth>>

\* A new instance of the component mounts on the same page: fresh refs and
\* state, and the effect runs for the first time.
Remount ==
    /\ ~mounted
    /\ inst < MaxMounts
    /\ mounted' = TRUE
    /\ inst' = inst + 1
    /\ SetAdapter(IF Gated(variant) THEN EffectRun(Adapter, inst + 1) ELSE Adapter)
    /\ ev' = Event("mount", "-")
    /\ UNCHANGED <<variant, hostVars, issued, inflight, reauth>>

Next ==
    \/ Host(Typing)
    \/ Host(Submit)
    \/ Host(WidgetSuccess)
    \/ Host(WidgetExpire)
    \/ Host(Resolve)
    \/ Host(Reject)
    \/ ScriptLoaded
    \/ ScriptFailed

\* The page while the component stays mounted.
Spec == Init /\ [][Next]_vars

\* Every issued request eventually settles.
FairSpec == Spec /\ WF_vars(Host(Resolve) \/ Host(Reject))

\* Mutant of ButtonEnabled: the button is not disabled while token is null.
ButtonEnabled_IgnoresToken == ~loading

\* Mutant of ButtonEnabled: the button is not disabled while loading.
ButtonEnabled_IgnoresLoading == GateSatisfied(variant, token)

\* The submit button: disabled={loading || !token}, disabled={loading} in the
\* ungated variant.
ButtonEnabled == ~loading /\ GateSatisfied(variant, token)

\* A click on the submit button, which the browser delivers only while the
\* button is enabled.
ClickSubmit == ButtonEnabled /\ handleSearch

NextUI ==
    \/ Host(Typing)
    \/ Host(ClickSubmit)
    \/ Host(WidgetSuccess)
    \/ Host(WidgetExpire)
    \/ Host(Resolve)
    \/ Host(Reject)
    \/ ScriptLoaded
    \/ ScriptFailed

\* The component when submits come from the button alone.
SpecUI == Init /\ [][NextUI]_vars

FairSpecUI == SpecUI /\ WF_vars(Host(Resolve) \/ Host(Reject))

\* The life of the adapter on a page where gated components mount and unmount
\* one after another; no search is submitted.
AdapterNext ==
    \/ Host(Typing)
    \/ Host(WidgetSuccess)
    \/ Host(WidgetExpire)
    \/ ScriptLoaded
    \/ ScriptFailed
    \/ Unmount
    \/ Remount

AdapterInit == Init /\ Gated(variant)

AdapterSpec == AdapterInit /\ [][AdapterNext]_vars

\* A script that is loading eventually loads or fails.
FairAdapterSpec == AdapterSpec /\ WF_vars(ScriptLoaded \/ ScriptFailed)

----------------------------------------------------------------------------
\* Vocabulary of the properties.  Every action records its kind in ev, so a
\* step is a submit exactly when ev'.kind = "submit", and so on.

SubmitStep == ev'.kind = "submit"

SettledStep == ev'.kind = "settled"

\* The query is not empty and not whitespace only.
NonBlank(q) == \E i \in 1..Len(q) : q[i] \notin WhiteSpace

\* A request was sent in this step.
RequestIssued == issued' # issued \/ ~(inflight' \subseteq inflight)

HexValue(c) ==
    CASE c = "0" -> 0 [] c = "1" -> 1 [] c = "2" -> 2 [] c = "3" -> 3
      [] c = "4" -> 4 [] c = "5" -> 5 [] c = "6" -> 6 [] c = "7" -> 7
      [] c = "8" -> 8 [] c = "9" -> 9

\* The character of a code point (those the model uses).
CharOf(n) ==
    CASE n = 32 -> " " [] n = 9 -> "\t" [] n = 38 -> "&" [] n = 37 -> "%"

\* decodeURIComponent: the inverse the service applies to the id parameter.
RECURSIVE decodeURIComponent(_)
decodeURIComponent(s) ==
    IF s = << >> THEN << >>
    ELSE IF Head(s) = "%"
    THEN <<CharOf(16 * HexValue(s[2]) + HexValue(s[3]))>>
         \o decodeURIComponent(SubSeq(s, 4, Len(s)))
    ELSE <<Head(s)>> \o decodeURIComponent(Tail(s))

\* Characters that may not appear as such in a query parameter.
UrlUnsafe == {" ", "\t", "&"}

----------------------------------------------------------------------------
\* C1: in the gated variants a submit with a non-blank query and no token
\* sends no request, sets error to the variant's fixed message and leaves
\* loading, results, hasSearched and token as they were; and whatever the
\* order of submits, widget callbacks and responses, a request is only sent
\* by a submit made while a token is held.
C1_UngatedSubmitRejected ==
    /\ [][ (SubmitStep /\ Gated(variant) /\ NonBlank(query) /\ token = Null)
            => /\ ~RequestIssued
               /\ variant = "memo"
                    => error' = <<"Please verify you are human first.">>
               /\ variant = "inline"
                    => error' = <<"Verifying security... please wait a moment.">>
               /\ UNCHANGED <<loading, results, hasSearched, token>> ]_vars
    /\ [][ (RequestIssued /\ Gated(variant))
            => (SubmitStep /\ token # Null) ]_vars

\* A submit was rejected for want of a token while an earlier request, sent
\* before the token expired, is still in flight.
C1_Witness ==
    /\ ev.kind = "submit" /\ ev.path = "ungated"
    /\ Gated(variant) /\ token = Null /\ NonBlank(query)
    /\ error = VerifyMessage(variant)
    /\ inflight # {}

----------------------------------------------------------------------------
\* C4: a submit with a non-blank query and a satisfied gate sends exactly one
\* request, whose id parameter is the URL-encoding of the query held at the
\* submit (it decodes to the query and holds no unsafe character) and whose
\* x-turnstile-token header, in the gated variants, is the token held at the
\* submit; no other step sends a request, so requests sent and accepted
\* submits stay equal in number.
C4_OneRequestPerAcceptedSubmit ==
    /\ [][ (SubmitStep /\ NonBlank(query) /\ (Gated(variant) => token # Null))
            => /\ issued' = issued + 1
               /\ inflight \subseteq inflight'
               /\ Cardinality(inflight' \ inflight) = 1
               /\ \A r \in inflight' \ inflight :
                    /\ decodeURIComponent(r.id) = query
                    /\ \A i \in 1..Len(r.id) : r.id[i] \notin UrlUnsafe
                    /\ Gated(variant) => r.hdr = token
                    /\ ~Gated(variant) => r.hdr = NoHeader ]_vars
    /\ [][ RequestIssued
            => (SubmitStep /\ NonBlank(query) /\ (Gated(variant) => token # Null)) ]_vars

\* Two requests are in flight, the second sent for a query with a leading
\* blank and an ampersand, with a token other than the first one's.
C4_Witness ==
    /\ ev.kind = "submit" /\ ev.path = "accepted"
    /\ query = <<" ", "a", "&">>
    /\ \E r1, r2 \in inflight :
        /\ r1.n = 1 /\ r2.n = 2
        /\ r2.id = <<"%", "2", "0", "a", "%", "2", "6">>
        /\ r2.hdr = token /\ r1.hdr \in Tokens /\ r1.hdr # r2.hdr

----------------------------------------------------------------------------
\* C5: a submit with a non-blank query and a satisfied gate sets loading,
\* empties error and results and sets hasSearched, whatever error and results
\* held; and hasSearched never goes back to false.
C5_AcceptedSubmitLoads ==
    /\ [][ (SubmitStep /\ NonBlank(query) /\ (Gated(variant) => token # Null))
            => /\ loading' = TRUE
               /\ error' = << >>
               /\ results' = << >>
               /\ hasSearched' = TRUE ]_vars
    /\ [][ hasSearched => hasSearched' ]_vars

\* The second submit was accepted, after a first attempt had settled.
C5_Witness ==
    /\ ev.kind = "submit" /\ ev.path = "accepted"
    /\ issued = 2 /\ Cardinality(inflight) = 1
    /\ loading /\ error = << >> /\ results = << >> /\ hasSearched

----------------------------------------------------------------------------
\* C6: a submit with an empty or whitespace-only query changes nothing and
\* sends no request, in every variant and every state.
C6_BlankSubmitNoOp ==
    [][ (SubmitStep /\ ~NonBlank(query))
         => /\ ~RequestIssued
            /\ UNCHANGED <<query, loading, error, results, hasSearched, token>> ]_vars

\* A whitespace-only query was submitted while a token is held, results are
\* shown and an error is shown.
C6_Witness ==
    /\ ev.kind = "submit" /\ ev.path = "blank"
    /\ query = <<" ", "\t">>
    /\ token # Null /\ results # << >> /\ error # << >>

----------------------------------------------------------------------------
\* More vocabulary: how the settled attempt ended, read off the response.

\* The response carried status 401 or 403.
AuthStatus == ev'.code = 401 \/ ev'.code = 403

\* A response arrived with a success status, and reading it did not throw.
SuccessResponse == ev'.code >= 200 /\ ev'.code <= 299 /\ ev'.thrown = NoThrow

\* fetch or res.text() threw.
Threw == ev'.thrown \in Thrown

\* The three digits of a status code.
StatusDigits(code) ==
    << Digit(code \div 100), Digit((code \div 10) % 10), Digit(code % 10) >>

\* The pieces of message text m hold the pieces of text part, in a row.
Includes(m, part) ==
    \E i \in 1..(Len(m) - Len(part) + 1) : SubSeq(m, i, i + Len(part) - 1) = part

SecurityMessages == {
    <<"Security check failed. Please try again.">>,
    <<"Security check failed or token expired. Please retry.">> }

\* The text of the first child of emp with that tag, when there is one and
\* its text is not empty; the placeholder otherwise.
FieldOr(emp, tag, placeholder) ==
    IF \E j \in 1..Len(emp) :
            /\ emp[j].tag = tag /\ emp[j].text # ""
            /\ \A k \in 1..(j - 1) : emp[k].tag # tag
    THEN (CHOOSE t \in { emp[j].text : j \in 1..Len(emp) } :
            \E j \in 1..Len(emp) :
                /\ emp[j].tag = tag /\ emp[j].text = t
                /\ \A k \in 1..(j - 1) : emp[k].tag # tag)
    ELSE placeholder

\* results' is the list of records of the employee elements of the document.
ResultsFromDocument ==
    /\ Len(results') = Len(ev'.employees)
    /\ \A i \in 1..Len(ev'.employees) :
        /\ results'[i].name = FieldOr(ev'.employees[i], "firstName", "Unknown")
        /\ results'[i].roll = FieldOr(ev'.employees[i], "rollno", "N/A")
        /\ results'[i].hometown = FieldOr(ev'.employees[i], "Home_town", "N/A")

----------------------------------------------------------------------------
\* C2 as stated: in every variant a response with status 401 or 403 sets
\* token to null and error to a fixed security message, reads no body, and
\* results is the empty list of the clear-on-submit.
C2_Original ==
    [][ (SettledStep /\ AuthStatus)
         => /\ token' = Null
            /\ error' \in SecurityMessages
            /\ ~ev'.read
            /\ results' = << >> ]_vars

\* C2 amended: in the gated variants a response with status 401 or 403 sets
\* token to null and error to the variant's fixed security message, reads no
\* body and leaves results as it was, which is the empty list of the
\* clear-on-submit when loading is still true; the ungated variant has no branch
\* for 401 and 403 and reports them as any other non-success status.
C2_AuthFailure ==
    /\ [][ (SettledStep /\ AuthStatus /\ Gated(variant))
            => /\ token' = Null
               /\ variant = "memo"
                    => error' = <<"Security check failed. Please try again.">>
               /\ variant = "inline"
                    => error' = <<"Security check failed or token expired. Please retry.">>
               /\ ~ev'.read
               /\ results' = results
               /\ loading => results' = << >> ]_vars
    /\ [][ (SettledStep /\ AuthStatus /\ ~Gated(variant))
            => /\ error' = <<"Connection failed: ">> \o StatusDigits(ev'.code)
                            \o <<" ", IF ev'.code = 401 THEN "Unauthorized"
                                                        ELSE "Forbidden">>
               /\ ~ev'.read
               /\ UNCHANGED <<results, token>> ]_vars

\* A 403 answered a request of a gated variant that carried a token.
C2_Witness ==
    /\ ev.kind = "settled" /\ ev.code = 403 /\ Gated(variant)
    /\ token = Null /\ error \in SecurityMessages
    /\ results = << >> /\ ~loading

----------------------------------------------------------------------------
\* C3 as stated: every attempt that settles ends with loading false and in
\* exactly one of Success (error empty, results set from the body) and Failed
\* (error not empty, results not set by the attempt); and, every request
\* settling eventually, loading true leads to loading false.
C3_Original ==
    /\ [][ SettledStep
            => /\ loading' = FALSE
               /\ \/ (SuccessResponse /\ error' = << >> /\ ResultsFromDocument)
                  \/ (~SuccessResponse /\ error' # << >> /\ results' = results) ]_vars
    /\ (loading ~> ~loading)

\* C3 amended: every attempt that settles ends with loading false and takes
\* exactly one of two paths: after a success response whose body was read,
\* results is set from the body and error is left as it was (empty when it was
\* empty); after any other outcome error is set to the non-empty message of
\* the failure and results is left as it was.  Every request settling
\* eventually, loading true leads to loading false.
C3_SettlesOnePath ==
    /\ [][ SettledStep
            => /\ loading' = FALSE
               /\ SuccessResponse => (ResultsFromDocument /\ error' = error)
               /\ ~SuccessResponse => (error' # << >> /\ results' = results) ]_vars
    /\ (loading ~> ~loading)

\* A success response settled an attempt while the error of a submit rejected
\* in the meantime is shown: results are set and the error stays.
C3_Witness ==
    /\ ev.kind = "settled" /\ ev.path = "parsed"
    /\ ~loading /\ results # << >> /\ error # << >>

----------------------------------------------------------------------------
\* C7 as stated: in every variant a response with a non-success status other
\* than 401 and 403 sets error to a message that includes the status code,
\* leaves the token alone and reads no body.
C7_Original ==
    [][ (SettledStep /\ ev'.code >= 300 /\ ~AuthStatus)
         => /\ Includes(error', StatusDigits(ev'.code))
            /\ token' = token
            /\ ~ev'.read ]_vars

\* C7 amended: a response with a non-success status other than 401 and 403
\* sets error, leaves token and results alone and reads no body; the message
\* includes the status code in the memoized and the ungated variant, and is
\* the fixed text 'Failed to connect to search service' in the inline variant.
C7_OtherStatus ==
    [][ (SettledStep /\ ev'.code >= 300 /\ ~AuthStatus)
         => /\ variant \in {"memo", "lite"}
                => /\ Includes(error', StatusDigits(ev'.code))
                   /\ Head(error') = "Connection failed: "
            /\ variant = "inline"
                => error' = <<"Failed to connect to search service">>
            /\ UNCHANGED <<token, results>>
            /\ ~ev'.read ]_vars

\* A 404 settled an attempt of the memoized variant; the token is still held.
C7_Witness ==
    /\ ev.kind = "settled" /\ ev.code = 404 /\ variant = "memo"
    /\ error = <<"Connection failed: ", "4", "0", "4", " ", "Not Found">>
    /\ token # Null /\ ~loading

----------------------------------------------------------------------------
\* C8: a failure of fetch or of the parse (a thrown value, or a body that is
\* not well-formed XML) leaves results alone and sets error to the message of
\* the thrown Error, or to 'Something went wrong.' when the thrown value has
\* none; a body that is not well-formed never ends in Success.
C8_FailureOnException ==
    [][ (SettledStep /\ (Threw \/ ev'.malformed))
         => /\ results' = results
            /\ error' # << >>
            /\ Threw => error' = IF ev'.thrown.isError
                                 THEN ev'.thrown.message
                                 ELSE <<"Something went wrong.">> ]_vars

----------------------------------------------------------------------------
\* C9: after a success response whose document holds N employee elements,
\* results holds N records in the order of the document, each with the text
\* of the element's firstName, rollno and Home_town, or 'Unknown', 'N/A',
\* 'N/A' where that child is missing or its text is empty.
C9_RecordsFromEmployees ==
    [][ (SettledStep /\ SuccessResponse)
         => /\ ResultsFromDocument
            /\ ev'.employees = <<EmpRavi>>
                => results' = <<[name |-> "ravi", roll |-> "210123",
                                 hometown |-> "delhi"]>> ]_vars

\* A document of two employee elements was parsed, the first without
\* firstName and with an empty rollno.
C9_Witness ==
    /\ ev.kind = "settled" /\ ev.path = "parsed" /\ ~ev.malformed
    /\ ev.employees = <<EmpPartial, EmpRavi>>
    /\ results = << [name |-> "Unknown", roll |-> "N/A", hometown |-> "pune"],
                    [name |-> "ravi", roll |-> "210123", hometown |-> "delhi"] >>

----------------------------------------------------------------------------
\* C10 as stated: after a success response with no employee element results
\* is the empty list, error is empty, loading is false and the token is as
\* it was.
C10_Original ==
    [][ (SettledStep /\ SuccessResponse /\ ev'.employees = << >>)
         => /\ results' = << >>
            /\ error' = << >>
            /\ loading' = FALSE
            /\ token' = token ]_vars

\* C10 amended: after a success response with no employee element results is
\* the empty list, loading is false, the token is as it was, and error is
\* left as it was: empty, unless a rejected submit or another attempt's
\* failure set it while the request was in flight.
C10_EmptySuccess ==
    [][ (SettledStep /\ SuccessResponse /\ ev'.employees = << >>)
         => /\ results' = << >>
            /\ error' = error
            /\ loading' = FALSE
            /\ token' = token ]_vars

\* A well-formed document without employee elements was parsed in a gated
\* variant.
C10_Witness ==
    /\ ev.kind = "settled" /\ ev.path = "parsed" /\ ~ev.malformed
    /\ ev.employees = << >>
    /\ results = << >> /\ error = << >> /\ ~loading /\ token # Null

----------------------------------------------------------------------------
\* C11 as stated: after a 401/403 response has cleared the token no request is
\* issued until onSuccess delivers a new token; after that a submit with a
\* non-blank query is accepted while the token is held, and a 200 response to
\* a request submitted after the new token ends with error empty and results
\* taken from that response.
C11_Original ==
    /\ [][ reauth.st = "pending" => ~RequestIssued ]_vars
    /\ [][ (reauth.st = "pending" /\ reauth'.st # "pending")
            => ev'.kind = "onSuccess" /\ token' \in Tokens ]_vars
    /\ [][ (reauth.st = "done" /\ SubmitStep /\ NonBlank(query) /\ token # Null)
            => RequestIssued ]_vars
    /\ [][ (reauth.st = "done" /\ SettledStep /\ SuccessResponse
                /\ ev'.req > reauth.at)
            => error' = << >> /\ ResultsFromDocument ]_vars

\* C11 amended: after a 401/403 response has cleared the token, the token is
\* null and no request is issued until onSuccess delivers a new token; after
\* that a submit with a non-blank query is accepted while the token is held
\* and the request carries the held token, and a 200 response to a request
\* submitted after the new token takes results from that response and leaves
\* error as it was: empty, unless a rejected submit or another attempt's
\* failure set it while the request was in flight.
C11_RetryNeedsNewToken ==
    /\ [][ reauth.st = "pending" => token = Null /\ ~RequestIssued ]_vars
    /\ [][ (reauth.st = "pending" /\ reauth'.st # "pending")
            => ev'.kind = "onSuccess" /\ token' \in Tokens ]_vars
    /\ [][ (reauth.st = "done" /\ SubmitStep /\ NonBlank(query) /\ token # Null)
            => /\ RequestIssued
               /\ \E r \in inflight' \ inflight : r.hdr = token ]_vars
    /\ [][ (reauth.st = "done" /\ SettledStep /\ SuccessResponse
                /\ ev'.req > reauth.at)
            => error' = error /\ ResultsFromDocument ]_vars

\* A request submitted after the token that followed a 401/403 response was
\* answered with a document of employees.
C11_Witness ==
    /\ reauth.st = "done" /\ ev.kind = "settled" /\ ev.path = "parsed"
    /\ ev.req > reauth.at /\ ev.employees # << >>
    /\ results # << >> /\ error = << >> /\ token \in Tokens /\ ~loading

----------------------------------------------------------------------------
\* C12: the expiry callback sets token to null whatever the state, requests in
\* flight included, and changes nothing else; while token is null every
\* submit with a non-blank query is rejected by the gate and sends nothing,
\* only onSuccess ends that, and a request always carries the token held when
\* it was submitted.
C12_ExpiryInvalidatesToken ==
    /\ [][ ev'.kind = "onExpire"
            => /\ token' = Null
               /\ UNCHANGED <<query, results, loading, error, hasSearched,
                              issued, inflight>> ]_vars
    /\ [][ (Gated(variant) /\ token = Null /\ SubmitStep /\ NonBlank(query))
            => /\ ~RequestIssued
               /\ inflight' = inflight
               /\ error' = VerifyMessage(variant)
               /\ token' = Null ]_vars
    /\ [][ (token = Null /\ token' # Null) => ev'.kind = "onSuccess" ]_vars
    /\ [][ (Gated(variant) /\ RequestIssued)
            => /\ token \in Tokens
               /\ \A r \in inflight' \ inflight : r.hdr = token ]_vars

\* The token expired while a request carrying it was in flight, and a submit
\* that followed was rejected by the gate.
C12_Witness ==
    /\ reauth.st = "none" /\ token = Null
    /\ ev.kind = "submit" /\ ev.path = "ungated"
    /\ \E r \in inflight : r.hdr \in Tokens
    /\ loading /\ error = VerifyMessage(variant)

----------------------------------------------------------------------------
\* C13: through effect runs, cleanups, the script-load callback and unmount,
\* an adapter never has more than one widget that was rendered and not
\* removed, its widgetId ref holds an id exactly while that widget exists, and
\* render is called only when the ref holds none (after the cleanup of the
\* same re-run removed the previous widget, if there was one).
C13_AtMostOneWidget ==
    /\ [](\A i \in Instances :
            /\ widgets[i] <= 1
            /\ widgetId[i] # Null <=> widgets[i] = 1)
    /\ [][ (widgetOps'.rendered /\ widgetId[inst'] # Null)
            => widgetOps'.removed ]_vars

\* A re-run of the effect removed the widget of the mounted adapter and
\* rendered it again.
C13_Witness ==
    /\ mounted /\ widgetOps.removed /\ widgetOps.rendered
    /\ widgets[inst] = 1 /\ widgetId[inst] # Null

----------------------------------------------------------------------------
\* An instance that has left the page.
Unmounted(i) == i < inst \/ (i = inst /\ ~mounted)

\* C14: an adapter that has unmounted has no widget left and its ref is
\* cleared, and no step renders a widget for it afterwards, whenever the
\* script loads: before the mount, between effect runs or after the unmount.
C14_NoOrphanWidget ==
    /\ [](\A i \in Instances :
            Unmounted(i) => widgets[i] = 0 /\ widgetId[i] = Null)
    /\ [][ \A i \in Instances :
            Unmounted(i) => widgets'[i] = widgets[i] ]_vars
    /\ [][ (~mounted /\ ev'.kind = "scriptLoaded") => ~widgetOps'.rendered ]_vars

\* The unmount of an adapter removed the widget it had rendered.
C14_Witness ==
    /\ ~mounted /\ ev.kind = "unmount" /\ widgetOps.removed
    /\ turnstile /\ widgets[inst] = 0 /\ widgetId[inst] = Null

----------------------------------------------------------------------------
\* C15: the document never holds more than one loader script; the gated
\* component's first effect run inserts it, no later effect run of any
\* instance inserts another, and no step removes it.
C15_ScriptSingleton ==
    /\ [](scripts = 1)
    /\ [][ scripts' = scripts ]_vars

\* A second instance mounted, found the script of the first and inserted
\* none.
C15_Witness ==
    /\ inst = 2 /\ mounted /\ ev.kind = "mount" /\ scripts = 1

----------------------------------------------------------------------------
\* A step of the host component: an event handler and the render after it.
HostStep == ev'.kind \in {"setQuery", "submit", "onSuccess", "onExpire", "settled"}

\* C16: in the gated variants a render of the host after a state change
\* (query, token, error, loading, results) never runs the cleanup and the body
\* of the adapter's effect again: no such step removes or renders a widget.
C16_RerenderKeepsWidget ==
    [][ (Gated(variant) /\ HostStep)
         => ~widgetOps'.removed /\ ~widgetOps'.rendered ]_vars

----------------------------------------------------------------------------
\* C17: in a gated variant, as long as window.turnstile is not defined no
\* widget exists, no ref holds an id, no callback of the widget runs, token is
\* null, nothing was requested and nothing is shown but the message of the
\* gate; the load or the failure of the script changes no state of the host.
C17_NoScriptNoSearch ==
    /\ []((Gated(variant) /\ ~turnstile)
            => /\ \A i \in Instances : widgets[i] = 0 /\ widgetId[i] = Null
               /\ ev.kind \notin {"onSuccess", "onExpire", "settled"}
               /\ token = Null
               /\ issued = 0 /\ inflight = {}
               /\ ~loading /\ ~hasSearched /\ results = << >>
               /\ error \in {<< >>, VerifyMessage(variant)})
    /\ [][ (Gated(variant) /\ ~turnstile') => ~RequestIssued ]_vars
    /\ [][ ev'.kind \in {"scriptLoaded", "scriptFailed"}
            => UNCHANGED <<hostVars, issued, inflight>> ]_vars

\* The script failed to load and a submit with a non-blank query was rejected
\* by the gate.
C17_Witness ==
    /\ Gated(variant) /\ ~turnstile /\ onload = 0 /\ scripts = 1
    /\ ev.kind = "submit" /\ ev.path = "ungated"
    /\ token = Null /\ issued = 0 /\ error = VerifyMessage(variant)

----------------------------------------------------------------------------
\* C18: when submits come from the enabled button alone, at most one request
\* is in flight in every reachable state and loading is true exactly when a
\* request is in flight.
C18_OneInFlight ==
    /\ Cardinality(inflight) <= 1
    /\ loading <=> inflight # {}

\* The second request of a session is in flight alone.
C18_Witness ==
    /\ issued = 2 /\ loading /\ Cardinality(inflight) = 1
    /\ ev.kind = "submit" /\ ev.path = "accepted"

----------------------------------------------------------------------------
\* C19: a submit that passes the blank test and the gate is accepted whether
\* or not loading is true and leaves the earlier requests in flight; a request
\* leaves only by settling; and the settling of any request, a superseded one
\* that settles after a later one included, sets loading to false and writes
\* its outcome: results from its document on success, its message into error
\* otherwise.
C19_LateOutcomeOverwrites ==
    /\ [][ (SubmitStep /\ NonBlank(query) /\ GateSatisfied(variant, token))
            => /\ inflight \subseteq inflight'
               /\ Cardinality(inflight') = Cardinality(inflight) + 1
               /\ issued' = issued + 1 ]_vars
    /\ [][ \A r \in inflight \ inflight' : SettledStep /\ ev'.req = r.n ]_vars
    /\ [][ SettledStep
            => /\ loading' = FALSE
               /\ SuccessResponse => ResultsFromDocument
               /\ ~SuccessResponse => error' # << >> /\ results' = results
               /\ (Threw /\ ev'.thrown.isError) => error' = ev'.thrown.message ]_vars

\* Two requests overlapped, the later one settled first, and the document of
\* the earlier one, settling last, is what results shows.
C19_Witness ==
    /\ issued = 2 /\ inflight = {}
    /\ ev.kind = "settled" /\ ev.req = 1 /\ ev.path = "parsed"
    /\ ev.employees # << >> /\ results # << >> /\ ~loading

----------------------------------------------------------------------------
\* C20: the success callback sets token to a token and error to empty in every
\* state and leaves loading, results, query and hasSearched (and the requests)
\* as they were; a non-empty error becomes empty only by that callback or by
\* an accepted submit.
C20_SuccessClearsError ==
    /\ [][ ev'.kind = "onSuccess"
            => /\ token' \in Tokens
               /\ error' = << >>
               /\ UNCHANGED <<loading, results, query, hasSearched, issued,
                              inflight>> ]_vars
    /\ [][ (error # << >> /\ error' = << >>)
            => \/ ev'.kind = "onSuccess"
               \/ ev'.kind = "submit" /\ ev'.path = "accepted" ]_vars

\* The token that followed a 401/403 response arrived: the security message
\* is gone, the rest is as the failed attempt left it.
C20_Witness ==
    /\ ev.kind = "onSuccess" /\ reauth.st = "done" /\ reauth.at = issued
    /\ token \in Tokens /\ error = << >>
    /\ hasSearched /\ results = << >>

----------------------------------------------------------------------------
\* C21: an adapter that is mounted when window.turnstile is defined, or gets
\* mounted afterwards, eventually has a widget in its container unless it
\* unmounts first; this covers the adapter whose mount found the script of an
\* earlier instance inserted and not yet loaded.
C21_WidgetEventuallyRendered ==
    \A i \in Instances :
        (mounted /\ inst = i /\ turnstile)
            ~> (widgets[i] > 0 \/ ~(mounted /\ inst = i))

----------------------------------------------------------------------------
\* C22: when submits come from the enabled button alone, error and results
\* are never both non-empty, and both are empty while loading is true.
C22_ErrorOrResults ==
    /\ ~(error # << >> /\ results # << >>)
    /\ loading => (error = << >> /\ results = << >>)

\* A second search is pending: what the first one showed has been cleared.
C22_Witness ==
    /\ issued = 2 /\ loading /\ inflight # {}
    /\ error = << >> /\ results = << >> /\ hasSearched

====
